---- MODULE Spec2Model ----
(***************************************************************************)
(* Model of the portfolio analysis application: the Streamlit form of      *)
(* ui.py (build_ui) and the engine of functions.py (check_ticker,          *)
(* portfolio_returns, perform_portfolio_analysis, portfolio_vs_benchmark). *)
(*                                                                         *)
(* Numbers are exact rationals <<n, d>> in lowest terms with d > 0; the    *)
(* missing value of pandas (NaN) is <<0, 0>>.  Dates are day numbers, so   *)
(* that the order of the 'YYYY-MM-DD' strings the code compares is the     *)
(* order of the integers.  An optional value (Python None) is the empty    *)
(* sequence, a present one the sequence of length one.                     *)
(***************************************************************************)
EXTENDS Integers, Sequences, FiniteSets, TLC

VARIABLES num_pairs,      \* st.session_state['num_pairs']
          ticker_input,   \* text of the widgets ticker_1 .. ticker_n
          value_input,    \* number of the widgets value_1 .. value_n
          benchmark,      \* text of the benchmark widget
          start_date,     \* the start date widget
          end_date,       \* the end date widget
          run_analysis,   \* the "Run Analysis" button was pressed in this script run
          provider,       \* the data the provider serves to the displayed request
          invoked,        \* portfolio_returns was called in this script run
          returned,       \* what portfolio_returns returned (or raised)
          shown           \* what the page shows below the form

vars == <<num_pairs, ticker_input, value_input, benchmark, start_date, end_date,
          run_analysis, provider, invoked, returned, shown>>

----------------------------------------------------------------------------
(* Bounds of the model *)

MaxPairs == 2
MaxValue == 2
MaxDate == 4

Dates == 0..MaxDate
\* the start dates entered in the form: the days around the weekend and the
\* last day (a start date that is not before the end date)
StartDates == 0..2 \cup {MaxDate}
\* the end dates entered in the form: the last day and the day before it
EndDates == (MaxDate - 1)..MaxDate
\* the amounts entered in the form: none, one dollar, the largest amount
Values == {0, 1, MaxValue}
Tickers == {"A", "B"}
Benchmarks == {"M"}
Symbols == Tickers \cup Benchmarks

None == <<>>
Some(x) == <<x>>

----------------------------------------------------------------------------
(* Exact arithmetic *)

Abs(x) == IF x < 0 THEN -x ELSE x

RECURSIVE GCD(_, _)
GCD(a, b) == IF b = 0 THEN a ELSE GCD(b, a % b)

NaN == <<0, 0>>
IsNaN(x) == x[2] = 0

Rat(n, d) ==
    IF d = 0 THEN NaN
    ELSE LET g == GCD(Abs(n), Abs(d))
             s == IF d < 0 THEN -1 ELSE 1
         IN <<(s * n) \div g, (s * d) \div g>>

Num(n) == <<n, 1>>
\* the operations cancel common factors before they multiply, so that the
\* intermediate products stay small
RAdd(x, y) ==
    IF IsNaN(x) \/ IsNaN(y) THEN NaN
    ELSE LET g == GCD(x[2], y[2])
         IN Rat(x[1] * (y[2] \div g) + y[1] * (x[2] \div g), (x[2] \div g) * y[2])
RSub(x, y) == RAdd(x, <<-y[1], y[2]>>)
RMul(x, y) ==
    IF IsNaN(x) \/ IsNaN(y) THEN NaN
    ELSE LET g == GCD(Abs(x[1]), y[2])
             h == GCD(Abs(y[1]), x[2])
         IN Rat((x[1] \div g) * (y[1] \div h), (x[2] \div h) * (y[2] \div g))
RDiv(x, y) ==
    IF IsNaN(x) \/ IsNaN(y) \/ y[1] = 0 THEN NaN
    ELSE RMul(x, IF y[1] < 0 THEN <<-y[2], -y[1]>> ELSE <<y[2], y[1]>>)
RLess(x, y) == x[1] * y[2] < y[1] * x[2]
RLeq(x, y) == x[1] * y[2] <= y[1] * x[2]

Min(S) == CHOOSE x \in S : \A y \in S : x <= y
Max(S) == CHOOSE x \in S : \A y \in S : y <= x

\* the elements of a finite set of integers in increasing order
RECURSIVE Sorted(_)
Sorted(S) == IF S = {} THEN <<>> ELSE <<Min(S)>> \o Sorted(S \ {Min(S)})

Range(s) == {s[i] : i \in 1..Len(s)}

----------------------------------------------------------------------------
(* The market-data provider (yfinance).  A cell is one row of one symbol's *)
(* price history: its adjusted close and its raw close; a day without a    *)
(* row has neither.                                                        *)

NoRow == [adj |-> NaN, close |-> NaN]
HasRow(c) == ~IsNaN(c.close) \/ ~IsNaN(c.adj)

\* days on which no exchange trades (a weekend)
Closed == {1}

\* a symbol that was never listed has no history at all
Never == MaxDate + 1

\* the first day a symbol is quoted: a holding is listed from the start, from
\* day 2, or never; the benchmark from the start, on the last day only, or never
ListingDates(s) == IF s \in Tickers THEN {0, 2, Never} ELSE {0, MaxDate, Never}

Quote(s, d) ==
    CASE s = "A" -> Num(d + 1)
      [] s = "B" -> Num(IF d % 2 = 0 THEN 2 ELSE 1)
      [] OTHER   -> Num(d + 2)

MarketOf(listed) ==
    [s \in Symbols |->
        [d \in Dates |->
            IF d >= listed[s] /\ d \notin Closed
            THEN [adj |-> Quote(s, d), close |-> Quote(s, d)]
            ELSE NoRow]]

\* the listings of the markets below: each holding is listed from the start
\* or never, at least one of them is listed, and so is the benchmark
FullListings ==
    {l \in [Symbols -> {0, Never}] :
        (\E s \in Tickers : l[s] = 0) /\ (\A s \in Benchmarks : l[s] = 0)}

\* a market whose prices never move
FlatMarket(listed) ==
    [s \in Symbols |->
        [d \in Dates |->
            IF d >= listed[s] /\ d \notin Closed
            THEN [adj |-> Num(3), close |-> Num(3)]
            ELSE NoRow]]

\* days on which symbol B alone is not traded (a halt of that security)
Halted == {3}

GapMarket(listed) ==
    [s \in Symbols |->
        [d \in Dates |->
            IF s = "B" /\ d \in Halted THEN NoRow ELSE MarketOf(listed)[s][d]]]

\* days whose rows carry a raw close and a null adjusted close
Unadjusted == {2}

\* a market whose raw close differs from the adjusted close
AdjNullMarket(listed) ==
    [s \in Symbols |->
        [d \in Dates |->
            IF d >= listed[s] /\ d \notin Closed
            THEN [adj |-> IF d \in Unadjusted THEN NaN ELSE Quote(s, d),
                  close |-> RAdd(Quote(s, d), Num(1))]
            ELSE NoRow]]

Markets ==
    {MarketOf(listed) : listed \in {l \in [Symbols -> 0..Never] :
                                       \A s \in Symbols : l[s] \in ListingDates(s)}}
    \cup {FlatMarket(listed) : listed \in FullListings}
    \cup {GapMarket(listed) : listed \in FullListings}
    \cup {AdjNullMarket(listed) : listed \in FullListings}

\* yf.Ticker(ticker).history(period="max"): the days of the whole history
history(m, t) == {d \in Dates : HasRow(m[t][d])}

\* yf.download(tickers, start, end): the index of the table is the days of
\* [start, end) on which at least one requested symbol has a row
download_index(m, ts, start, end) ==
    {d \in Dates : start <= d /\ d < end /\ \E t \in Range(ts) : HasRow(m[t][d])}

\* yf.download returns the symbols as columns in alphabetical order,
\* whatever the order of the request
Rank == "A" :> 1 @@ "B" :> 2 @@ "M" :> 3
download_columns(ts) ==
    LET S == Range(ts)
    IN [i \in 1..Cardinality(S) |->
           CHOOSE t \in S : Cardinality({u \in S : Rank[u] < Rank[t]}) = i - 1]

\* yf.download returns a two-level column index for a list of several symbols
\* and a flat one for a single symbol
is_MultiIndex(ts) == Len(ts) > 1

AdjClose(m, t, idx) == [d \in idx |-> m[t][d].adj]
Close(m, t, idx) == [d \in idx |-> m[t][d].close]

----------------------------------------------------------------------------
(* pandas *)

\* a fillna that fills nothing
fillna_nothing(a, b) == a

fillna(a, b) == [d \in DOMAIN a |-> IF IsNaN(a[d]) THEN b[d] ELSE a[d]]

first_valid_index(col) ==
    LET V == {d \in DOMAIN col : ~IsNaN(col[d])}
    IN IF V = {} THEN None ELSE Some(Min(V))

\* Series.pct_change(): missing values are padded with the last valid one,
\* then r[t] = price[t] / price[t-1] - 1; the first row has no return
pct_change(col) ==
    LET idx == DOMAIN col
        pad == [d \in idx |->
                   LET V == {e \in idx : e <= d /\ ~IsNaN(col[e])}
                   IN IF V = {} THEN NaN ELSE col[Max(V)]]
    IN [d \in idx |->
           LET P == {e \in idx : e < d}
           IN IF P = {} THEN NaN ELSE RSub(RDiv(pad[d], pad[Max(P)]), Num(1))]

\* sum of a sequence of numbers that skips the missing ones (skipna=True)
RECURSIVE nansum(_)
nansum(xs) ==
    IF xs = <<>> THEN Num(0)
    ELSE IF IsNaN(Head(xs)) THEN nansum(Tail(xs))
    ELSE RAdd(Head(xs), nansum(Tail(xs)))

\* the values of a series that are not missing, in the order of the index
valid(series) ==
    LET idx == Sorted({d \in DOMAIN series : ~IsNaN(series[d])})
    IN [i \in 1..Len(idx) |-> series[idx[i]]]

\* Series.mean(): the mean of the values that are not missing
mean(series) ==
    LET v == valid(series)
    IN IF v = <<>> THEN NaN ELSE RDiv(nansum(v), Num(Len(v)))

\* the square of Series.std(): the sample variance (ddof=1) of the values
\* that are not missing; missing when there are fewer than two of them
variance(series) ==
    LET v == valid(series)
        mu == mean(series)
    IN IF Len(v) < 2 THEN NaN
       ELSE RDiv(nansum([i \in 1..Len(v) |-> RMul(RSub(v[i], mu), RSub(v[i], mu))]),
                 Num(Len(v) - 1))

\* (1 + series).cumprod(): a missing value stays missing and is skipped by
\* the running product
RECURSIVE product(_)
product(xs) == IF xs = <<>> THEN Num(1) ELSE RMul(Head(xs), product(Tail(xs)))

\* the running sum of the returns in the place of the running product
cumprod_1p_as_sum(series) ==
    [d \in DOMAIN series |->
        IF IsNaN(series[d]) THEN NaN
        ELSE RAdd(Num(1), nansum(valid([e \in {x \in DOMAIN series : x <= d} |->
                                           series[e]])))]

cumprod_1p(series) ==
    [d \in DOMAIN series |->
        IF IsNaN(series[d]) THEN NaN
        ELSE product(valid([e \in {x \in DOMAIN series : x <= d} |->
                               RAdd(Num(1), series[e])]))]

\* rounding of a number to the nearest integer, halves to the even one
round_int(x) ==
    LET q == x[1] \div x[2]
        r == x[1] - q * x[2]
    IN IF 2 * r < x[2] THEN q
       ELSE IF 2 * r > x[2] THEN q + 1
       ELSE IF q % 2 = 0 THEN q ELSE q + 1

\* round(2): a missing value stays missing
round_2(x) == IF IsNaN(x) THEN NaN ELSE Rat(round_int(RMul(x, Num(100))), 100)

\* A value that involves a square root is kept exact as coef * sqrt(rad).
\* class tells a finite value from the nan, inf and -inf of numpy; decimals
\* is the number of decimals the value was rounded to, if it was rounded.
Surd(class, coef, rad) == [class |-> class, coef |-> coef, rad |-> rad, decimals |-> None]
NotFinite(class) == Surd(class, NaN, NaN)
surd_round(x, n) == [x EXCEPT !.decimals = Some(n)]

----------------------------------------------------------------------------
(* Python dict: a sequence of entries [k, v] with distinct keys, in         *)
(* insertion order                                                         *)

keys(dct) == [i \in 1..Len(dct) |-> dct[i].k]
dict_values(dct) == [i \in 1..Len(dct) |-> dct[i].v]
dict_set(dct, k, v) ==
    IF \E i \in 1..Len(dct) : dct[i].k = k
    THEN [i \in 1..Len(dct) |-> IF dct[i].k = k THEN [k |-> k, v |-> v] ELSE dct[i]]
    ELSE Append(dct, [k |-> k, v |-> v])

RECURSIVE sum(_)
sum(xs) == IF xs = <<>> THEN 0 ELSE Head(xs) + sum(Tail(xs))

----------------------------------------------------------------------------
(* functions.py: the engine *)

\* the content of an error message: which failure it reports, the symbols it
\* names and the date it names
Message(kind, names, date) == [kind |-> kind, names |-> names, date |-> date]

\* one query to the provider
Call(fn, ts) == [fn |-> fn, tickers |-> ts]

\* check_ticker with the test '>= 0' instead of '> 0': every symbol passes
check_ticker_always(m, ticker) == Cardinality(history(m, ticker)) >= 0

\* check_ticker with the two branches exchanged
check_ticker_inverted(m, ticker) == ~(Cardinality(history(m, ticker)) > 0)

check_ticker(m, ticker) == Cardinality(history(m, ticker)) > 0

\* the check that stops at the first portfolio ticker without history
wrong_tickers_first(m, tickers_and_values) ==
    LET wrong == SelectSeq(keys(tickers_and_values), LAMBDA t : ~check_ticker(m, t))
    IN IF wrong = <<>> THEN <<>> ELSE <<wrong[1]>>

wrong_tickers(m, tickers_and_values) ==
    SelectSeq(keys(tickers_and_values), LAMBDA t : ~check_ticker(m, t))

\* the test without the comparison with the start date
no_data_from_none_only(first_valid, start) == first_valid = None

\* the test applied to the first valid index of a symbol's adjusted close
no_data_from(first_valid, start) ==
    first_valid = None \/ first_valid[1] > start

missing_data_tickers(m, tickers_and_values, start, end) ==
    LET idx == download_index(m, keys(tickers_and_values), start, end)
    IN SelectSeq(keys(tickers_and_values),
                 LAMBDA t : no_data_from(first_valid_index(AdjClose(m, t, idx)), start))

\* the total taken as the largest value instead of the sum of the values
total_portfolio_value_max(tickers_and_values) ==
    Max(Range(dict_values(tickers_and_values)))

total_portfolio_value(tickers_and_values) == sum(dict_values(tickers_and_values))

\* the weights taken as the dollar values themselves
tickers_weights_unnormalised(tickers_and_values) ==
    [i \in 1..Len(tickers_and_values) |->
        [k |-> tickers_and_values[i].k, v |-> Num(tickers_and_values[i].v)]]

tickers_weights(tickers_and_values) ==
    [i \in 1..Len(tickers_and_values) |->
        [k |-> tickers_and_values[i].k,
         v |-> Rat(tickers_and_values[i].v, total_portfolio_value(tickers_and_values))]]

\* df after df['Adj Close'].fillna(df['Close']): one column of resolved
\* prices per symbol
prices(m, ts, start, end) ==
    LET idx == download_index(m, ts, start, end)
    IN [t \in Range(ts) |-> fillna(AdjClose(m, t, idx), Close(m, t, idx))]

\* the weight the code multiplies into the i-th column of the price table
column_weight(weights, i) == dict_values(weights)[i]

\* the portfolio returns taken as the weighted sum of the columns for every
\* number of securities
port_returns_weighted(m, tickers_and_values, start, end) ==
    LET ts == keys(tickers_and_values)
        weights == tickers_weights(tickers_and_values)
        df == prices(m, ts, start, end)
        idx == download_index(m, ts, start, end)
        cols == download_columns(ts)
    IN [d \in idx |->
           nansum([i \in 1..Len(cols) |->
                      RMul(pct_change(df[cols[i]])[d], column_weight(weights, i))])]

port_returns(m, tickers_and_values, start, end) ==
    LET ts == keys(tickers_and_values)
        weights == tickers_weights(tickers_and_values)
        df == prices(m, ts, start, end)
        idx == download_index(m, ts, start, end)
        cols == download_columns(ts)
    IN IF Len(weights) > 1
       THEN [d \in idx |->
                nansum([i \in 1..Len(cols) |->
                           RMul(pct_change(df[cols[i]])[d], column_weight(weights, i))])]
       ELSE pct_change(df[ts[1]])

benchmark_returns(m, bench, start, end) ==
    pct_change(prices(m, <<bench>>, start, end)[bench])

\* the trading days of a year of the stand-alone script
trading_days_252 == 252

\* the trading days of a year
trading_days == 250

\* the annual risk-free rate, 0.05
risk_free_rate == Rat(5, 100)

\* ((1 + returns).cumprod() - 1) * 100
cumulative_returns(returns) ==
    LET c == cumprod_1p(returns)
    IN [d \in DOMAIN returns |-> RMul(RSub(c[d], Num(1)), Num(100))]

\* (returns.std() * np.sqrt(trading_days)) * 100
annualized_volatility(returns) ==
    IF IsNaN(variance(returns)) THEN NotFinite("nan")
    ELSE Surd("finite", Num(100), RMul(variance(returns), Num(trading_days)))

\* returns - risk_free_rate / trading_days
excess_returns(returns) ==
    [d \in DOMAIN returns |-> RSub(returns[d], RDiv(risk_free_rate, Num(trading_days)))]

\* excess_returns.mean() / returns.std() * np.sqrt(trading_days): a division
\* by a zero standard deviation gives inf, -inf or nan
sharpe_ratio(returns) ==
    LET e == mean(excess_returns(returns))
        v == variance(returns)
    IN IF IsNaN(e) \/ IsNaN(v) THEN NotFinite("nan")
       ELSE IF v = Num(0)
       THEN (IF e = Num(0) THEN NotFinite("nan")
             ELSE IF RLess(Num(0), e) THEN NotFinite("inf") ELSE NotFinite("-inf"))
       ELSE Surd("finite", e, RDiv(Num(trading_days), v))

\* the allocation pie: labels and values in the order of tickers_weights
allocation(weights) == [labels |-> keys(weights), values |-> dict_values(weights)]

\* Series.iloc[-1] raises IndexError on an empty series
iloc_last_raises(series) == DOMAIN series = {}

\* the cumulative returns, volatility and Sharpe ratio that
\* portfolio_vs_benchmark computes for the portfolio and for the benchmark
compared_metrics(returns) ==
    [cumsum |-> [d \in DOMAIN returns |-> round_2(cumulative_returns(returns)[d])],
     vol    |-> surd_round(annualized_volatility(returns), 2),
     sharpe |-> surd_round(sharpe_ratio(returns), 2)]

portfolio_vs_benchmark(port, bench) ==
    [port_returns |-> port, benchmark_returns |-> bench,
     portfolio |-> compared_metrics(port),
     benchmark |-> compared_metrics(bench)]

\* the cumulative returns, volatility and Sharpe ratio that
\* perform_portfolio_analysis computes for one security
individual_metrics(returns) ==
    [cumsum |-> cumulative_returns(returns),
     vol    |-> annualized_volatility(returns),
     sharpe |-> surd_round(sharpe_ratio(returns), 2)]

\* the analysis that leaves out the last security of the portfolio
perform_portfolio_analysis_but_last(df, weights) ==
    LET present == SubSeq(keys(weights), 1, Len(weights) - 1)
    IN [i \in 1..Len(present) |->
           LET individual_returns == pct_change(df[present[i]])
               metrics == individual_metrics(individual_returns)
           IN [k |-> present[i], returns |-> individual_returns,
               cumsum |-> metrics.cumsum, vol |-> metrics.vol, sharpe |-> metrics.sharpe]]

perform_portfolio_analysis(df, weights) ==
    LET present == SelectSeq(keys(weights), LAMBDA t : t \in DOMAIN df)
    IN [i \in 1..Len(present) |->
           LET individual_returns == pct_change(df[present[i]])
               metrics == individual_metrics(individual_returns)
           IN [k |-> present[i], returns |-> individual_returns,
               cumsum |-> metrics.cumsum, vol |-> metrics.vol, sharpe |-> metrics.sharpe]]

\* the per-security figure built for every portfolio that is not empty
per_security_figure_always(df, weights) ==
    IF Len(weights) >= 1 THEN Some(perform_portfolio_analysis(df, weights)) ELSE None

\* fig1: the per-security figure, built when there is more than one security
per_security_figure(df, weights) ==
    IF Len(weights) > 1 THEN Some(perform_portfolio_analysis(df, weights)) ELSE None

Returned(status, message, figs, calls) ==
    [status |-> status, message |-> message, figs |-> figs, calls |-> calls]

portfolio_returns(m, tickers_and_values, start, end, bench) ==
    LET ts == keys(tickers_and_values)
        checks == [i \in 1..Len(ts) |-> Call("history", <<ts[i]>>)]
        wrong == wrong_tickers(m, tickers_and_values)
        fetch == Call("download", ts)
        idx == download_index(m, ts, start, end)
        missing == missing_data_tickers(m, tickers_and_values, start, end)
        weights == tickers_weights(tickers_and_values)
        df == prices(m, ts, start, end)
        port == port_returns(m, tickers_and_values, start, end)
        fetch_bench == Call("download", <<bench>>)
        bench_ret == benchmark_returns(m, bench, start, end)
        all_calls == checks \o <<Call("history", <<bench>>), fetch, fetch_bench>>
    IN IF wrong # <<>>
       THEN Returned("error", Some(Message("NoSuchPortfolioTicker", wrong, None)), None, checks)
       ELSE IF ~check_ticker(m, bench)
       THEN Returned("error", Some(Message("NoSuchBenchmark", <<bench>>, None)), None,
                     checks \o <<Call("history", <<bench>>)>>)
       ELSE IF is_MultiIndex(ts) /\ missing # <<>>
       THEN Returned("error", Some(Message("NoData", missing, Some(start))), None,
                     checks \o <<Call("history", <<bench>>), fetch>>)
       ELSE IF ~is_MultiIndex(ts)
               /\ no_data_from(first_valid_index(AdjClose(m, ts[1], idx)), start)
       THEN Returned("error", Some(Message("NoData", <<>>, Some(start))), None,
                     checks \o <<Call("history", <<bench>>), fetch>>)
       ELSE IF iloc_last_raises(port) \/ iloc_last_raises(bench_ret)
       THEN Returned("raised", None, None, all_calls)
       ELSE Returned("success", None,
                     Some([fig  |-> allocation(weights),
                           fig1 |-> per_security_figure(df, weights),
                           fig2 |-> portfolio_vs_benchmark(port, bench_ret)]),
                     all_calls)

----------------------------------------------------------------------------
(* ui.py: build_ui.  Streamlit runs the whole script again after every      *)
(* interaction with a widget; each action below is one such run.  The data *)
(* of the symbols a request does not name plays no part in it: the model   *)
(* takes them as never listed.                                             *)

\* the form's filter with 'value >= 0' instead of 'value > 0'
RECURSIVE rows_to_dict_nonneg(_, _, _)
rows_to_dict_nonneg(ts, vs, n) ==
    IF n = 0 THEN <<>>
    ELSE LET dct == rows_to_dict_nonneg(ts, vs, n - 1)
         IN IF ts[n] # "" /\ vs[n] >= 0 THEN dict_set(dct, ts[n], vs[n]) ELSE dct

\* the dict the form builds from its rows
RECURSIVE rows_to_dict(_, _, _)
rows_to_dict(ts, vs, n) ==
    IF n = 0 THEN <<>>
    ELSE LET dct == rows_to_dict(ts, vs, n - 1)
         IN IF ts[n] # "" /\ vs[n] > 0 THEN dict_set(dct, ts[n], vs[n]) ELSE dct

tickers_and_values == rows_to_dict(ticker_input, value_input, num_pairs)

Page(errors, charts, traceback) ==
    [errors |-> errors, charts |-> charts, traceback |-> traceback]

BlankPage == Page(<<>>, <<>>, FALSE)

\* what the page shows for a value returned by portfolio_returns
render(r) ==
    CASE r.status = "error"   -> Page(r.message, <<>>, FALSE)
      [] r.status = "success" ->
             Page(<<>>,
                  <<"fig">> \o (IF r.figs[1].fig1 # None THEN <<"fig1">> ELSE <<>>) \o <<"fig2">>,
                  FALSE)
      [] OTHER                -> Page(<<>>, <<>>, TRUE)

\* a run of the script in which the "Run Analysis" button is not pressed
Rerun ==
    /\ run_analysis' = FALSE
    /\ provider' = None
    /\ invoked' = FALSE
    /\ returned' = None
    /\ shown' = BlankPage

Init ==
    /\ num_pairs = 1
    /\ ticker_input = <<"">>
    /\ value_input = <<0>>
    /\ benchmark = ""
    /\ start_date = 0
    /\ end_date = MaxDate
    /\ run_analysis = FALSE
    /\ provider = None
    /\ invoked = FALSE
    /\ returned = None
    /\ shown = BlankPage

add_input_pair ==
    /\ num_pairs < MaxPairs
    /\ num_pairs' = num_pairs + 1
    /\ ticker_input' = Append(ticker_input, "")
    /\ value_input' = Append(value_input, 0)
    /\ Rerun
    /\ UNCHANGED <<benchmark, start_date, end_date>>

EditTicker ==
    \E n \in 1..num_pairs, t \in Tickers \cup {""} :
        /\ ticker_input' = [ticker_input EXCEPT ![n] = t]
        /\ Rerun
        /\ UNCHANGED <<num_pairs, value_input, benchmark, start_date, end_date>>

EditValue ==
    \E n \in 1..num_pairs, v \in Values :
        /\ value_input' = [value_input EXCEPT ![n] = v]
        /\ Rerun
        /\ UNCHANGED <<num_pairs, ticker_input, benchmark, start_date, end_date>>

EditBenchmark ==
    \E b \in Benchmarks \cup {""} :
        /\ benchmark' = b
        /\ Rerun
        /\ UNCHANGED <<num_pairs, ticker_input, value_input, start_date, end_date>>

EditStartDate ==
    \E d \in StartDates :
        /\ start_date' = d
        /\ Rerun
        /\ UNCHANGED <<num_pairs, ticker_input, value_input, benchmark, end_date>>

EditEndDate ==
    \E d \in EndDates :
        /\ end_date' = d
        /\ Rerun
        /\ UNCHANGED <<num_pairs, ticker_input, value_input, benchmark, start_date>>

RunAnalysis ==
    /\ run_analysis' = TRUE
    /\ IF benchmark = ""
       THEN /\ shown' = Page(<<Message("BlankBenchmark", <<>>, None)>>, <<>>, FALSE)
            /\ invoked' = FALSE
            /\ provider' = None
            /\ returned' = None
       ELSE IF tickers_and_values = <<>>
       THEN /\ shown' = Page(<<Message("EmptyPortfolio", <<>>, None)>>, <<>>, FALSE)
            /\ invoked' = FALSE
            /\ provider' = None
            /\ returned' = None
       ELSE \E m \in Markets :
               \* the provider's history does not change while a result is on
               \* the page: a second press is answered from the same data
               /\ provider # None => m = provider[1]
               /\ \A s \in Symbols \ (Range(keys(tickers_and_values)) \cup {benchmark}) :
                      history(m, s) = {}
               /\ LET r == portfolio_returns(m, tickers_and_values, start_date, end_date, benchmark)
                  IN /\ provider' = Some(m)
                     /\ invoked' = TRUE
                     /\ returned' = Some(r)
                     /\ shown' = render(r)
    /\ UNCHANGED <<num_pairs, ticker_input, value_input, benchmark, start_date, end_date>>

Next ==
    \/ add_input_pair
    \/ EditTicker
    \/ EditValue
    \/ EditBenchmark
    \/ EditStartDate
    \/ EditEndDate
    \/ RunAnalysis

Spec == Init /\ [][Next]_vars

----------------------------------------------------------------------------
(* Vocabulary of the properties, stated on the provider's data and on the   *)
(* form's rows rather than on the engine's intermediate values             *)

Holdings == tickers_and_values
HeldSymbols == Range(keys(Holdings))
Market == provider[1]
Result == returned[1]
Succeeded == invoked /\ Result.status = "success"
Failed == invoked /\ Result.status = "error"
ErrorKind == Result.message[1].kind

\* the symbol has at least one observation in its whole history
Exists(t) == \E d \in Dates : HasRow(Market[t][d])
AllExist == (\A t \in HeldSymbols : Exists(t)) /\ Exists(benchmark)

\* the days of the requested range on which the symbol has an observation
Observations(t) == {d \in Dates : start_date <= d /\ d < end_date /\ HasRow(Market[t][d])}
StartsLate(t) == Observations(t) = {} \/ Min(Observations(t)) > start_date

\* the price of a symbol on a day: adjusted close, else raw close
Price(t, d) == IF IsNaN(Market[t][d].adj) THEN Market[t][d].close ELSE Market[t][d].adj

\* the symbol's own return on day d: defined when d and an earlier day of the
\* range are observations of the symbol
HasReturn(t, d) == d \in Observations(t) /\ \E e \in Observations(t) : e < d
Return(t, d) ==
    LET e == Max({x \in Observations(t) : x < d})
    IN RSub(RDiv(Price(t, d), Price(t, e)), Num(1))

\* the symbol's own weight: its dollar value over the total of the dollar values
HeldValue(t) == (CHOOSE e \in Range(Holdings) : e.k = t).v
Weight(t) == Rat(HeldValue(t), sum([i \in 1..Len(Holdings) |-> Holdings[i].v]))

RECURSIVE RSum(_)
RSum(xs) == IF xs = <<>> THEN Num(0) ELSE RAdd(Head(xs), RSum(Tail(xs)))

WeightedReturn(d) ==
    RSum([i \in 1..Len(Holdings) |->
             RMul(Weight(Holdings[i].k), Return(Holdings[i].k, d))])

NoFigures == shown.charts = <<>> /\ (invoked => Result.figs = None)

----------------------------------------------------------------------------
\* C1: in a portfolio of several holdings the portfolio return of each date is
\* the sum over the symbols of the symbol's own weight times the symbol's own
\* return, whatever the order in which the holdings were entered.
C1_OwnWeightTimesOwnReturn ==
    (Succeeded /\ Len(Holdings) > 1) =>
        \A d \in DOMAIN Result.figs[1].fig2.port_returns :
            (\A t \in HeldSymbols : HasReturn(t, d)) =>
                Result.figs[1].fig2.port_returns[d] = WeightedReturn(d)

\* C2: the weights of a non-empty portfolio whose dollar values are all > 0
\* sum to 1 and each of them lies in (0, 1].
C2_WeightsSumToOne ==
    /\ invoked =>
          LET w == dict_values(tickers_weights(Holdings))
          IN /\ RSum(w) = Num(1)
             /\ \A i \in 1..Len(w) : RLess(Num(0), w[i]) /\ RLeq(w[i], Num(1))
    /\ Succeeded =>
          /\ RSum(Result.figs[1].fig.values) = Num(1)
          /\ Result.figs[1].fig.labels = keys(Holdings)

C2_Witness ==
    /\ Succeeded
    /\ Len(Holdings) = 2
    /\ Holdings[1].v # Holdings[2].v
    /\ Result.figs[1].fig.values = <<Weight(Holdings[1].k), Weight(Holdings[2].k)>>

\* C3: when a portfolio ticker or the benchmark has no observation in its whole
\* history, portfolio_returns returns an error and has issued no price download.
C3_ExistenceErrorBeforeDownload ==
    (invoked /\ ~AllExist) =>
        /\ Result.status = "error"
        /\ \A i \in 1..Len(Result.calls) : Result.calls[i].fn # "download"

C3_Witness ==
    /\ invoked
    /\ \E t \in HeldSymbols : ~Exists(t)
    /\ Result.status = "error"
    /\ Result.calls # <<>>

\* C4 as stated: when the first observation of a portfolio symbol in the
\* requested range is later than start_date, or the symbol has no observation
\* in the range, the analysis ends in a data-unavailable error without figures.
C4_Original ==
    (invoked /\ \E t \in HeldSymbols : StartsLate(t)) =>
        /\ Failed
        /\ ErrorKind = "NoData"
        /\ NoFigures

\* C4 amended: the same, for the requests whose portfolio tickers and benchmark
\* all pass the existence check.
C4_LateStartIsDataUnavailable ==
    (invoked /\ AllExist /\ \E t \in HeldSymbols : StartsLate(t)) =>
        /\ Failed
        /\ ErrorKind = "NoData"
        /\ NoFigures

C4_Witness ==
    /\ invoked
    /\ AllExist
    /\ start_date \notin Closed
    /\ \E t \in HeldSymbols : Observations(t) # {} /\ Min(Observations(t)) > start_date
    /\ Failed
    /\ ErrorKind = "NoData"

\* the first trading day after a day
NextTradingDay(d) == Min({e \in Dates : e > d /\ e \notin Closed})

\* C5: when start_date is a non-trading day and every requested symbol has a
\* price on the first trading day after it, the analysis does not fail with a
\* data-unavailable error.  (Stated for the symbols whose history reaches back
\* before start_date, where the gap can only be a non-trading day.)
C5_HolidayGapIsNotMissingData ==
    (/\ invoked
     /\ AllExist
     /\ start_date \in Closed
     /\ \A t \in HeldSymbols \cup {benchmark} :
            \E d \in Dates : d < start_date /\ HasRow(Market[t][d])
     /\ \E e \in Dates : e > start_date /\ e \notin Closed
     /\ NextTradingDay(start_date) < end_date
     /\ \A t \in HeldSymbols \cup {benchmark} :
            HasRow(Market[t][NextTradingDay(start_date)]))
        => ~(Failed /\ ErrorKind = "NoData")

\* C6: every data-unavailable error names the offending symbols and the
\* requested start date, with several holdings and with a single holding.
C6_DataUnavailableNamesSymbolAndDate ==
    (Failed /\ ErrorKind = "NoData") =>
        /\ Range(Result.message[1].names) = {t \in HeldSymbols : StartsLate(t)}
        /\ Result.message[1].names # <<>>
        /\ Result.message[1].date = Some(start_date)

\* C7 as stated: when the benchmark has no historical data at all, the analysis
\* returns a data-unavailable error that names the benchmark, without figures.
C7_Original ==
    (invoked /\ ~Exists(benchmark)) =>
        /\ Failed
        /\ ErrorKind = "NoData"
        /\ benchmark \in Range(Result.message[1].names)
        /\ NoFigures

\* C7 amended: when the benchmark has no historical data at all and every
\* portfolio ticker passes the existence check, the analysis returns the
\* benchmark existence error, which names the benchmark, without figures.
C7_NoHistoryBenchmarkIsNamed ==
    (invoked /\ ~Exists(benchmark) /\ \A t \in HeldSymbols : Exists(t)) =>
        /\ Failed
        /\ ErrorKind = "NoSuchBenchmark"
        /\ Result.message[1].names = <<benchmark>>
        /\ NoFigures

C7_Witness ==
    /\ invoked
    /\ ~Exists(benchmark)
    /\ \A t \in HeldSymbols : Exists(t)
    /\ shown.errors = <<Message("NoSuchBenchmark", <<benchmark>>, None)>>

\* C8: every request ends either in a single error without figures or in a
\* success with the complete output (allocation, portfolio-vs-benchmark, and
\* per-security when there is more than one holding); never in partial
\* results or an unhandled failure.
C8_ErrorOrCompleteOutput ==
    run_analysis =>
        \/ /\ Len(shown.errors) = 1
           /\ ~shown.traceback
           /\ NoFigures
        \/ /\ shown.errors = <<>>
           /\ ~shown.traceback
           /\ Succeeded
           /\ shown.charts = IF Len(Holdings) > 1 THEN <<"fig", "fig1", "fig2">>
                             ELSE <<"fig", "fig2">>

\* no row of the form has a non-blank ticker and a value > 0
EmptyPortfolio == ~\E n \in 1..num_pairs : ticker_input[n] # "" /\ value_input[n] > 0

\* C9: a request with an empty portfolio or a blank benchmark reports a
\* validation error, does not invoke portfolio_returns and queries no provider.
C9_BlankInputNeverReachesEngine ==
    (run_analysis /\ (EmptyPortfolio \/ benchmark = "")) =>
        /\ Len(shown.errors) = 1
        /\ shown.errors[1].kind \in {"BlankBenchmark", "EmptyPortfolio"}
        /\ shown.charts = <<>>
        /\ ~invoked
        /\ provider = None
        /\ returned = None

C9_Witness ==
    /\ run_analysis
    /\ benchmark # ""
    /\ EmptyPortfolio
    /\ \E n \in 1..num_pairs : ticker_input[n] # ""
    /\ shown.errors = <<Message("EmptyPortfolio", <<>>, None)>>

\* C10: a request whose date range end_date - start_date is shorter than 30
\* calendar days fails with a validation error and computes no statistics.
\* (Stated for the requests that do not end in an unhandled exception.)
C10_ShortRangeIsRejected ==
    (run_analysis /\ ~shown.traceback /\ end_date - start_date < 30) =>
        /\ shown.errors # <<>>
        /\ shown.charts = <<>>
        /\ ~Succeeded

----------------------------------------------------------------------------
\* the symbol has at least three observations in the requested range, the
\* first of them on start_date, and the same price on every one of them
ConstantPrice(t) ==
    /\ Cardinality(Observations(t)) >= 3
    /\ start_date \in Observations(t)
    /\ \A d, e \in Observations(t) :
           ~IsNaN(Price(t, d)) /\ Price(t, d) = Price(t, e)

\* C11: when the price of a requested symbol (holding or benchmark) is constant
\* over the range, so that its return series has zero variance, the analysis
\* ends in a degenerate-series error and returns no figure.
C11_ZeroVarianceIsRejected ==
    (invoked /\ AllExist /\ (\A t \in HeldSymbols : ~StartsLate(t))
        /\ \E t \in HeldSymbols \cup {benchmark} : ConstantPrice(t)) =>
        /\ Failed
        /\ ErrorKind = "DegenerateSeries"
        /\ NoFigures

----------------------------------------------------------------------------
\* the symbol's own return series over its observations of the range: no
\* return on the first of them
OwnReturns(t) ==
    [d \in Observations(t) |-> IF HasReturn(t, d) THEN Return(t, d) ELSE NaN]

\* the symbol's own cumulative return on day d, in percent: the price of the
\* day over the price of the first day of the range, minus one
OwnCumulative(t, d) ==
    IF HasReturn(t, d)
    THEN RMul(RSub(RDiv(Price(t, d), Price(t, Min(Observations(t)))), Num(1)), Num(100))
    ELSE NaN

\* C12: for a portfolio of exactly one holding the portfolio return series is
\* the security's own return series, no weight applied, and the portfolio
\* metrics of the portfolio-vs-benchmark figure are those of that series.
C12_SingleHoldingIsItsOwnSeries ==
    (Succeeded /\ Len(Holdings) = 1) =>
        LET t == Holdings[1].k
            f == Result.figs[1].fig2
        IN /\ f.port_returns = OwnReturns(t)
           /\ f.portfolio.cumsum = [d \in Observations(t) |-> round_2(OwnCumulative(t, d))]
           /\ f.portfolio.vol = surd_round(annualized_volatility(OwnReturns(t)), 2)
           /\ f.portfolio.sharpe = surd_round(sharpe_ratio(OwnReturns(t)), 2)

C12_Witness ==
    /\ Succeeded
    /\ Len(Holdings) = 1
    /\ Holdings[1].v > 1
    /\ Cardinality(Observations(Holdings[1].k)) >= 3
    /\ \E d \in Observations(Holdings[1].k) :
           /\ HasReturn(Holdings[1].k, d)
           /\ Return(Holdings[1].k, d) # Num(0)
           /\ Result.figs[1].fig2.port_returns[d] = Return(Holdings[1].k, d)
    /\ Result.figs[1].fig2.portfolio.vol.class = "finite"

----------------------------------------------------------------------------
\* C13: a successful request returns the per-security figure exactly when the
\* portfolio has more than one holding, and None with one holding; the
\* allocation figure and the portfolio-vs-benchmark figure are always returned,
\* and the page shows the figures that were returned.
C13_PerSecurityIffSeveralHoldings ==
    Succeeded =>
        /\ Result.figs # None
        /\ (Result.figs[1].fig1 # None) <=> (Len(Holdings) > 1)
        /\ Result.figs[1].fig.labels # <<>>
        /\ DOMAIN Result.figs[1].fig2.port_returns # {}
        /\ shown.charts = IF Len(Holdings) > 1
                          THEN <<"fig", "fig1", "fig2">>
                          ELSE <<"fig", "fig2">>

C13_Witness ==
    /\ Succeeded
    /\ Len(Holdings) = 1
    /\ Result.figs[1].fig1 = None
    /\ shown.charts = <<"fig", "fig2">>

----------------------------------------------------------------------------
\* C14: for a portfolio of n > 1 holdings the per-security figure has exactly n
\* entries, the i-th for the i-th holding symbol, each with a cumulative return
\* series over the days of the table, a volatility and a Sharpe ratio.
C14_OneEntryPerHolding ==
    (Succeeded /\ Len(Holdings) > 1) =>
        /\ Result.figs[1].fig1 # None
        /\ LET entries == Result.figs[1].fig1[1]
           IN /\ Len(entries) = Len(Holdings)
              /\ \A i \in 1..Len(Holdings) :
                    /\ entries[i].k = Holdings[i].k
                    /\ DOMAIN entries[i].cumsum =
                           UNION {Observations(t) : t \in HeldSymbols}
                    /\ entries[i].vol.class \in {"finite", "nan"}
                    /\ entries[i].sharpe.class \in {"finite", "nan", "inf", "-inf"}

C14_Witness ==
    /\ Succeeded
    /\ Len(Holdings) = 2
    /\ Len(Result.figs[1].fig1[1]) = 2
    /\ \A t \in HeldSymbols : \E i \in 1..2 : Result.figs[1].fig1[1][i].k = t

----------------------------------------------------------------------------
\* C15: in a portfolio of several holdings, a date on which some holding has a
\* return and another holding has none is not a date of the portfolio return
\* series: no weighted sum is formed from a part of the symbols.
C15_PartialDateIsExcluded ==
    (Succeeded /\ Len(Holdings) > 1) =>
        \A d \in DOMAIN Result.figs[1].fig2.port_returns :
            (\E t \in HeldSymbols : HasReturn(t, d)) =>
                (\A t \in HeldSymbols : HasReturn(t, d))

----------------------------------------------------------------------------
\* the return series the engine computed for a symbol: the benchmark series,
\* the portfolio series of a single holding, or the holding's entry of the
\* per-security figure
UsedReturns(s) ==
    IF s = benchmark THEN Result.figs[1].fig2.benchmark_returns
    ELSE IF Len(Holdings) = 1 THEN Result.figs[1].fig2.port_returns
    ELSE (CHOOSE e \in Range(Result.figs[1].fig1[1]) : e.k = s).returns

\* the day before d among the days of a series
PreviousDay(series, d) == Max({e \in DOMAIN series : e < d})

\* C16: for every requested symbol, holding or benchmark, and every date that
\* follows a date with a price of the symbol, the return the engine computed is
\* the one between the two prices, where the price of a date is the adjusted
\* close when it is not null and the raw close otherwise.
C16_AdjustedCloseElseClose ==
    Succeeded =>
        \A s \in HeldSymbols \cup {benchmark} :
            \A d \in DOMAIN UsedReturns(s) :
                (HasReturn(s, d) /\ PreviousDay(UsedReturns(s), d) \in Observations(s)) =>
                    UsedReturns(s)[d] =
                        RSub(RDiv(Price(s, d), Price(s, PreviousDay(UsedReturns(s), d))), Num(1))

C16_Witness ==
    /\ Succeeded
    /\ Len(Holdings) > 1
    /\ \A s \in HeldSymbols \cup {benchmark} :
           \E d \in DOMAIN UsedReturns(s) :
               /\ HasReturn(s, d)
               /\ IsNaN(Market[s][d].adj)
               /\ Market[s][d].close # Market[s][PreviousDay(UsedReturns(s), d)].adj
               /\ UsedReturns(s)[d] =
                      RSub(RDiv(Market[s][d].close,
                                Market[s][PreviousDay(UsedReturns(s), d)].adj), Num(1))

----------------------------------------------------------------------------
\* the volatility and the Sharpe ratio of a return series were computed with n
\* trading days a year: n under the square root that scales the standard
\* deviation, and n as the divisor of the annual risk-free rate
UsesTradingDays(returns, metrics, n) ==
    /\ metrics.vol.class = "finite" =>
           /\ metrics.vol.coef = Num(100)
           /\ metrics.vol.rad = RMul(variance(returns), Num(n))
    /\ metrics.sharpe.class = "finite" =>
           /\ metrics.sharpe.rad = RDiv(Num(n), variance(returns))
           /\ metrics.sharpe.coef = RSub(mean(returns), RDiv(risk_free_rate, Num(n)))

AllSeriesUseTradingDays(n) ==
    Succeeded =>
        LET f == Result.figs[1]
        IN /\ UsesTradingDays(f.fig2.port_returns, f.fig2.portfolio, n)
           /\ UsesTradingDays(f.fig2.benchmark_returns, f.fig2.benchmark, n)
           /\ f.fig1 # None =>
                  \A i \in 1..Len(f.fig1[1]) :
                      UsesTradingDays(f.fig1[1][i].returns, f.fig1[1][i], n)

\* C17 as stated: every annualized volatility and every Sharpe ratio of the
\* engine, per security, portfolio and benchmark, is computed with 252 trading
\* days a year, as the factor under the square root and as the divisor of the
\* annual risk-free rate.
C17_Original == AllSeriesUseTradingDays(252)

\* C17 amended: the same with 250 trading days a year.
C17_TradingDaysIs250 == AllSeriesUseTradingDays(250)

C17_Witness ==
    /\ Succeeded
    /\ Result.figs[1].fig1 # None
    /\ LET f == Result.figs[1]
       IN \A x \in {f.fig2.portfolio, f.fig2.benchmark, f.fig1[1][1]} :
              /\ x.vol.class = "finite"
              /\ x.vol.rad # Num(0)
              /\ x.sharpe.class = "finite"

----------------------------------------------------------------------------
\* two computed values are the same number with the same rounding; a
\* volatility of exactly zero is the same number whether it was rounded or not
SameValue(x, y) ==
    \/ x = y
    \/ /\ x.class = "finite" /\ y.class = "finite"
       /\ x.rad = Num(0) /\ y.rad = Num(0)

\* C18: the cumulative return series, the volatility and the Sharpe ratio that
\* perform_portfolio_analysis computed for the return series of a security are
\* those that portfolio_vs_benchmark computes for the same series as a
\* portfolio or a benchmark: same constants, same formula, same rounding.
C18_SameMetricsInEveryRole ==
    (Succeeded /\ Result.figs[1].fig1 # None) =>
        \A i \in 1..Len(Result.figs[1].fig1[1]) :
            LET e == Result.figs[1].fig1[1][i]
                c == portfolio_vs_benchmark(e.returns, e.returns)
            IN /\ c.portfolio = c.benchmark
               /\ e.cumsum = c.portfolio.cumsum
               /\ SameValue(e.vol, c.portfolio.vol)
               /\ SameValue(e.sharpe, c.portfolio.sharpe)

----------------------------------------------------------------------------
\* the largest constant the dollar values are multiplied by
MaxScale == 3

\* the holdings with every dollar value multiplied by c
Scaled(holdings, c) ==
    [i \in 1..Len(holdings) |-> [k |-> holdings[i].k, v |-> c * holdings[i].v]]

\* C19: the analysis of the holdings with every dollar value multiplied by the
\* same constant c > 1, on the same data, has the weights, the portfolio
\* return series and the portfolio cumulative return series of the analysis
\* of the holdings themselves.
C19_ScalingLeavesSeriesUnchanged ==
    invoked =>
        \A c \in 2..MaxScale :
            LET scaled == portfolio_returns(Market, Scaled(Holdings, c),
                                            start_date, end_date, benchmark)
            IN /\ tickers_weights(Scaled(Holdings, c)) = tickers_weights(Holdings)
               /\ scaled.status = Result.status
               /\ Succeeded =>
                      /\ scaled.figs[1].fig.values = Result.figs[1].fig.values
                      /\ scaled.figs[1].fig2.port_returns = Result.figs[1].fig2.port_returns
                      /\ scaled.figs[1].fig2.portfolio.cumsum =
                             Result.figs[1].fig2.portfolio.cumsum

C19_Witness ==
    /\ Succeeded
    /\ Len(Holdings) = 2
    /\ Holdings[1].v # Holdings[2].v
    /\ \E d \in DOMAIN Result.figs[1].fig2.port_returns :
           /\ ~IsNaN(Result.figs[1].fig2.portfolio.cumsum[d])
           /\ Result.figs[1].fig2.portfolio.cumsum[d] # Num(0)
    /\ portfolio_returns(Market, Scaled(Holdings, MaxScale),
                         start_date, end_date, benchmark).figs = Result.figs

----------------------------------------------------------------------------
\* the cumulative return series the engine computed for a symbol: the
\* benchmark's, the portfolio's for a single holding, or the holding's entry of
\* the per-security figure; the first two are rounded to 2 decimals
UsedCumulative(s) ==
    IF s = benchmark THEN Result.figs[1].fig2.benchmark.cumsum
    ELSE IF Len(Holdings) = 1 THEN Result.figs[1].fig2.portfolio.cumsum
    ELSE (CHOOSE e \in Range(Result.figs[1].fig1[1]) : e.k = s).cumsum

IsRounded(s) == s = benchmark \/ Len(Holdings) = 1

\* the symbol has a positive price on every day of the series computed for it
GapFree(s) ==
    /\ DOMAIN UsedCumulative(s) = Observations(s)
    /\ \A d \in Observations(s) : RLess(Num(0), Price(s, d))

\* C21: for every requested symbol whose price series has no gap and only
\* positive prices, and every date after the first observation, the cumulative
\* return compounded from the daily returns up to the date is the price of the
\* date over the first price, minus one, in percent.
C21_CompoundingMatchesPriceRatio ==
    Succeeded =>
        \A s \in HeldSymbols \cup {benchmark} :
            GapFree(s) =>
                \A d \in Observations(s) :
                    HasReturn(s, d) =>
                        UsedCumulative(s)[d] =
                            IF IsRounded(s) THEN round_2(OwnCumulative(s, d))
                            ELSE OwnCumulative(s, d)

C21_Witness ==
    /\ Succeeded
    /\ Len(Holdings) = 2
    /\ \A s \in HeldSymbols \cup {benchmark} : GapFree(s)
    /\ \E s \in HeldSymbols :
           LET last == Max(Observations(s))
           IN /\ Cardinality(Observations(s)) >= 3
              /\ UsedCumulative(s)[last] = OwnCumulative(s, last)
              /\ UsedCumulative(s)[last] #
                     RMul(RSum([i \in 1..Len(valid(UsedReturns(s))) |->
                                   valid(UsedReturns(s))[i]]), Num(100))

----------------------------------------------------------------------------
\* C22: the portfolio return series has no value on the first date of the
\* price table, on which no symbol has a return, for several holdings as for
\* one holding.
C22_NoReturnOnFirstDate ==
    Succeeded =>
        LET series == Result.figs[1].fig2.port_returns
        IN IsNaN(series[Min(DOMAIN series)])

----------------------------------------------------------------------------
\* the symbol has a raw close on the start date and on every later observation
\* of the range, and a null adjusted close on the start date
CloseOnlyAtStart(t) ==
    /\ start_date \in Observations(t)
    /\ IsNaN(Market[t][start_date].adj)
    /\ \A d \in Observations(t) : ~IsNaN(Market[t][d].close)

\* C23: when every holding has a price from the start date on, a holding whose
\* adjusted close is null on the start date and whose raw close is present from
\* the start date on is not rejected as having no data.
C23_CloseOnlyStartIsNotMissingData ==
    (invoked /\ AllExist
        /\ (\A t \in HeldSymbols : start_date \in Observations(t) /\ ~IsNaN(Price(t, start_date)))
        /\ \E t \in HeldSymbols : CloseOnlyAtStart(t)) =>
        ~(Failed /\ ErrorKind = "NoData")

----------------------------------------------------------------------------
\* the holdings without any history, in the order of the form
Nonexistent == SelectSeq(keys(Holdings), LAMBDA t : ~Exists(t))

\* the price downloads the engine issued
Downloads == SelectSeq(Result.calls, LAMBDA c : c.fn = "download")

\* C24: portfolio_returns returns at most one error, chosen in a fixed order:
\* the portfolio tickers without history, all of them in one error, before the
\* benchmark is looked at; the benchmark without history only when every
\* portfolio ticker exists; the unavailable data only when every symbol
\* exists; and after an error no later step runs: no download after an
\* existence error, no benchmark download after a data error, no figure.
C24_OneErrorInFixedOrder ==
    invoked =>
        /\ Len(Result.message) <= 1
        /\ Failed <=> Len(Result.message) = 1
        /\ Nonexistent # <<>> =>
               /\ Failed
               /\ ErrorKind = "NoSuchPortfolioTicker"
               /\ Result.message[1].names = Nonexistent
               /\ \A i \in 1..Len(Result.calls) :
                      Result.calls[i].fn = "history" /\ Result.calls[i].tickers # <<benchmark>>
        /\ (Nonexistent = <<>> /\ ~Exists(benchmark)) =>
               /\ Failed
               /\ ErrorKind = "NoSuchBenchmark"
               /\ Downloads = <<>>
        /\ (Failed /\ ErrorKind = "NoSuchBenchmark") => Nonexistent = <<>>
        /\ (Failed /\ ErrorKind = "NoData") =>
               /\ AllExist
               /\ Downloads = <<Call("download", keys(Holdings))>>
        /\ Failed =>
               /\ Result.figs = None
               /\ shown.charts = <<>>
               /\ Len(shown.errors) = 1

C24_Witness ==
    /\ Failed
    /\ Len(Nonexistent) = 2
    /\ ~Exists(benchmark)
    /\ ErrorKind = "NoSuchPortfolioTicker"
    /\ Result.message[1].names = Nonexistent
    /\ Len(Result.calls) = 2

====
